---- MODULE Spec2Model ----
(***************************************************************************)
(* Model of create_table_buckets.py: the workflow of main() over its       *)
(* collaborators (STS, the REST catalog, the Iceberg table, PyArrow and    *)
(* pandas), one action per function main() calls.                          *)
(***************************************************************************)
EXTENDS Integers, Sequences, FiniteSets, Bags, TLC

\* ------------------------------------------------------------------------
\* Bounds
\* ------------------------------------------------------------------------

\* Longest batch handed to overwrite_data.
MaxBatch == 2

\* ------------------------------------------------------------------------
\* Python values
\* ------------------------------------------------------------------------

None == "None"

\* A Python str, a Python int and Python's None as cell values.
PyStr(s) == [t |-> "str", s |-> s]
PyInt(n) == [t |-> "int", n |-> n]
Null == [t |-> "null"]

\* A Python int outside the range of pa.int32(), whatever its value.
PyBigInt == [t |-> "bigint"]

\* pandas cell values that a pyarrow cell cannot be: a float64 and NaN.
PyFloat(n) == [t |-> "float", n |-> n]
NaN == [t |-> "nan"]

\* create_customer_schema(): the ordered, typed fields of the customer table.
create_customer_schema ==
    << [name |-> "c_salutation", type |-> "string"],
       [name |-> "c_preferred_cust_flag", type |-> "string"],
       [name |-> "c_first_sales_date_sk", type |-> "int32"],
       [name |-> "c_customer_sk", type |-> "int32"],
       [name |-> "c_first_name", type |-> "string"],
       [name |-> "c_email_address", type |-> "string"] >>

Names(schema) == {schema[i].name : i \in 1..Len(schema)}

TypeOf(schema, n) ==
    LET i == CHOOSE k \in 1..Len(schema) : schema[k].name = n
    IN  schema[i].type

\* The example rows of main(): initial_data and new_data.
Donald ==
    [c_salutation |-> PyStr("Mr"), c_preferred_cust_flag |-> PyStr("Y"),
     c_first_sales_date_sk |-> PyInt(2452737), c_customer_sk |-> PyInt(1235),
     c_first_name |-> PyStr("Donald"), c_email_address |-> PyStr("donald@email.com")]

Daisy ==
    [c_salutation |-> PyStr("Mrs"), c_preferred_cust_flag |-> PyStr("N"),
     c_first_sales_date_sk |-> PyInt(2452738), c_customer_sk |-> PyInt(1236),
     c_first_name |-> PyStr("Daisy"), c_email_address |-> PyStr("daisy@email.com")]

Scrooge ==
    [c_salutation |-> PyStr("Dr"), c_preferred_cust_flag |-> PyStr("Y"),
     c_first_sales_date_sk |-> PyInt(2452739), c_customer_sk |-> PyInt(1237),
     c_first_name |-> PyStr("Scrooge"), c_email_address |-> PyStr("scrooge@email.com")]

initial_data == <<Donald, Daisy>>

new_data == <<Scrooge>>

\* Variants of the new_data row that overwrite_data can be handed: a null in
\* an int32 column, a missing key, a str in an int32 column, an int that
\* does not fit int32, and a key the schema does not declare.
ScroogeNullDate == [Scrooge EXCEPT !.c_first_sales_date_sk = Null]

ScroogeNoEmail ==
    [n \in DOMAIN Scrooge \ {"c_email_address"} |-> Scrooge[n]]

ScroogeStrKey == [Scrooge EXCEPT !.c_customer_sk = PyStr("1237")]

ScroogeBigKey == [Scrooge EXCEPT !.c_customer_sk = PyBigInt]

ScroogeExtra ==
    [n \in DOMAIN Scrooge \cup {"c_unexpected"} |->
        IF n = "c_unexpected" THEN PyStr("x") ELSE Scrooge[n]]

RecordPool ==
    {Donald, Daisy, Scrooge, ScroogeNullDate, ScroogeNoEmail, ScroogeStrKey,
     ScroogeBigKey, ScroogeExtra}

\* The batches overwrite_data is called with: every list of at most MaxBatch
\* records of the pool (new_data among them).
Batches == UNION {[1..n -> RecordPool] : n \in 0..MaxBatch}

\* Table contents a table that exists before the run can hold.
PriorContents == {<< >>, initial_data, new_data}

\* ------------------------------------------------------------------------
\* PyArrow and pandas conversions
\* ------------------------------------------------------------------------

\* Whether PyArrow converts the Python value v to a cell of the given type:
\* None to a null of any type, a str to string, an int within range to int32
\* (an int out of range raises ArrowInvalid).
Converts(v, type) ==
    \/ v.t = "null"
    \/ type = "string" /\ v.t = "str"
    \/ type = "int32" /\ v.t = "int"

\* The cell pa.Table.from_pylist takes from row for column n: row[n] if the
\* key is there, None if not; keys that are no column are never looked at.
Cell(row, n) == IF n \in DOMAIN row THEN row[n] ELSE Null

\* pa.Table.from_pylist(data, schema=schema): the typed rows, or a raised
\* ArrowInvalid / ArrowTypeError (ok = FALSE) when a cell does not convert.
from_pylist(pylist, schema) ==
    [ok   |-> \A i \in 1..Len(pylist) : \A n \in Names(schema) :
                  Converts(Cell(pylist[i], n), TypeOf(schema, n)),
     rows |-> [i \in 1..Len(pylist) |->
                  [n \in Names(schema) |-> Cell(pylist[i], n)]]]

\* table.scan().to_pandas(): an int32 column holding a null becomes float64
\* with NaN for the nulls; every other column keeps its values, a string null
\* staying None.
to_pandas(rows, schema) ==
    LET HasNull(n) == \E i \in 1..Len(rows) : rows[i][n].t = "null"
        Conv(v, n) ==
            IF TypeOf(schema, n) = "int32" /\ HasNull(n)
            THEN IF v.t = "null" THEN NaN ELSE PyFloat(v.n)
            ELSE v
    IN  [i \in 1..Len(rows) |-> [n \in Names(schema) |-> Conv(rows[i][n], n)]]

\* Mutant of overwrite: table.append(df), the old rows stay.
append(content, df) == content \o df

\* table.overwrite(df): the new content of the table is df alone.
overwrite(content, df) == df

\* Mutant of Refreshed: the handle keeps the metadata it was loaded with.
NotRefreshed(t, n) == t

\* The handle after its commit: main's table object points to the snapshot
\* the commit produced.
Refreshed(t, n) == [t EXCEPT !.snapshot = n]

\* Python's truth test of "if not x" on None and on a string.
Falsy(x) == x = None \/ x = ""

\* The status the process ends with: exit() raises SystemExit(None), and
\* SystemExit(None), like the end of the script, is status 0.
ExitStatus(code) == IF code = None THEN 0 ELSE 1

\* ------------------------------------------------------------------------
\* State
\* ------------------------------------------------------------------------

VARIABLES
    pc,          \* the function main() is about to call, or "exited" / "done"
    account_id,  \* main's account_id: "unset", None or the id
    catalog,     \* main's catalog: "unset", None or the catalog
    table,       \* main's table: ref "unset" / None / "Table" and, for a
                 \* Table, the snapshot its metadata points to
    data,        \* the batch handed to overwrite_data
    tableExists, \* whether DATABASE.TABLE_NAME exists in the catalog
    snapshots,   \* the table's snapshots, oldest first; the last is current
    calls,       \* the collaborator calls issued so far, in order
    stdout,      \* the lines printed so far: message and exception kind
    caught,      \* the kind of the exception overwrite_data caught, or ""
    ret,         \* what overwrite_data returned to main, "unset" before
    result,      \* all_data of read_table_data: state, snapshot read and rows
    exitStatus   \* << >> while running, <<status>> once the process ended

vars == <<pc, account_id, catalog, table, data, tableExists, snapshots, calls,
          stdout, caught, ret, result, exitStatus>>

Line(msg, e) == [msg |-> msg, e |-> e]

Printed(msg) == \E i \in 1..Len(stdout) : stdout[i].msg = msg

Called(c) == \E i \in 1..Len(calls) : calls[i] = c

Init ==
    /\ pc = "get_aws_account_id"
    /\ account_id = "unset"
    /\ catalog = "unset"
    /\ table = [ref |-> "unset", snapshot |-> 0]
    /\ data \in Batches
    /\ \/ tableExists = FALSE /\ snapshots = << >>
       \/ tableExists = TRUE /\ \E c \in PriorContents : snapshots = <<c>>
    /\ calls = << >>
    /\ stdout = << >>
    /\ caught = ""
    /\ ret = "unset"
    /\ result = [state |-> "unset", snapshot |-> 0, rows |-> << >>]
    /\ exitStatus = << >>

\* ------------------------------------------------------------------------
\* main(), one action per call
\* ------------------------------------------------------------------------

\* Mutant of AfterCheck: the "if not x: exit()" is missing.
AfterCheckNoExit(x, next) == next

\* Where main goes after a stage whose value it tests with "if not x: exit()".
AfterCheck(x, next) == IF Falsy(x) THEN "exited" ELSE next

\* exitStatus after that test: exit() ends the process.
StatusAfterCheck(x) == IF Falsy(x) THEN <<ExitStatus(None)>> ELSE << >>

\* account_id = get_aws_account_id(); if not account_id: exit()
GetAwsAccountId ==
    /\ pc = "get_aws_account_id"
    /\ calls' = Append(calls, "get_caller_identity")
    /\ \E o \in {"ok", "no_account", "AuthError"} :
          /\ account_id' = IF o = "ok" THEN "123456789012" ELSE None
          /\ stdout' = IF o = "AuthError"
                       THEN Append(stdout, Line("Error getting account ID", o))
                       ELSE stdout
    /\ pc' = AfterCheck(account_id', "initialize_catalog")
    /\ exitStatus' = StatusAfterCheck(account_id')
    /\ UNCHANGED <<catalog, table, data, tableExists, snapshots, caught, ret, result>>

\* catalog = initialize_catalog(account_id); if not catalog: exit()
InitializeCatalog ==
    /\ pc = "initialize_catalog"
    /\ calls' = Append(calls, "load_catalog")
    /\ \E o \in {"ok", "CatalogConnectError"} :
          /\ catalog' = IF o = "ok" THEN "rest_catalog" ELSE None
          /\ stdout' = IF o = "ok"
                       THEN Append(stdout, Line("Catalog loaded successfully!", ""))
                       ELSE Append(stdout, Line("Error loading catalog", o))
    /\ pc' = AfterCheck(catalog', "create_table_if_not_exists")
    /\ exitStatus' = StatusAfterCheck(catalog')
    /\ UNCHANGED <<account_id, table, data, tableExists, snapshots, caught, ret, result>>

\* Mutant of CreateTableIfNotExists: a failed create_table ends the workflow.
CreateTableOrExit ==
    /\ pc = "create_table_if_not_exists"
    /\ calls' = Append(calls, "create_table")
    /\ \E o \in IF tableExists THEN {"TableAlreadyExistsError", "TransportError"}
                ELSE {"ok", "TransportError"} :
          IF o = "ok"
          THEN /\ tableExists' = TRUE
               /\ snapshots' = << << >> >>
               /\ stdout' = Append(stdout, Line("Table created successfully", ""))
               /\ pc' = "load_table"
               /\ UNCHANGED exitStatus
          ELSE /\ stdout' = Append(stdout, Line("Table creation note", o))
               /\ pc' = "exited"
               /\ exitStatus' = <<ExitStatus(None)>>
               /\ UNCHANGED <<tableExists, snapshots>>
    /\ UNCHANGED <<account_id, catalog, table, data, caught, ret, result>>

\* create_table_if_not_exists(catalog, DATABASE, TABLE_NAME, schema)
CreateTableIfNotExists ==
    /\ pc = "create_table_if_not_exists"
    /\ calls' = Append(calls, "create_table")
    /\ \E o \in IF tableExists THEN {"TableAlreadyExistsError", "TransportError"}
                ELSE {"ok", "TransportError"} :
          IF o = "ok"
          THEN /\ tableExists' = TRUE
               /\ snapshots' = << << >> >>
               /\ stdout' = Append(stdout, Line("Table created successfully", ""))
          ELSE /\ stdout' = Append(stdout, Line("Table creation note", o))
               /\ UNCHANGED <<tableExists, snapshots>>
    /\ pc' = "load_table"
    /\ UNCHANGED <<account_id, catalog, table, data, caught, ret, result, exitStatus>>

\* table = load_table(catalog, DATABASE, TABLE_NAME); if not table: exit()
LoadTable ==
    /\ pc = "load_table"
    /\ calls' = Append(calls, "load_table")
    /\ \E o \in IF tableExists THEN {"ok", "TransportError"}
                ELSE {"TableNotFoundError"} :
          IF o = "ok"
          THEN /\ table' = [ref |-> "Table", snapshot |-> Len(snapshots)]
               /\ stdout' = Append(stdout, Line("Table schema", ""))
          ELSE /\ table' = [ref |-> None, snapshot |-> 0]
               /\ stdout' = Append(stdout, Line("Error loading the table", o))
    /\ pc' = AfterCheck(table'.ref, "overwrite_data")
    /\ exitStatus' = StatusAfterCheck(table'.ref)
    /\ UNCHANGED <<account_id, catalog, data, tableExists, snapshots, caught, ret, result>>

\* Mutant of OverwriteData: no try/except, the exception ends the process
\* with a traceback and status 1.
OverwriteDataNoCatch ==
    /\ pc = "overwrite_data"
    /\ LET table_data == from_pylist(data, create_customer_schema)
       IN  IF ~table_data.ok
           THEN /\ caught' = "SchemaMismatchError"
                /\ stdout' = Append(stdout, Line("Traceback", caught'))
                /\ pc' = "exited"
                /\ exitStatus' = <<ExitStatus("traceback")>>
                /\ UNCHANGED <<calls, snapshots, table, ret>>
           ELSE /\ calls' = Append(calls, "overwrite")
                /\ \E o \in {"ok", "WriteConflictError", "TransportError"} :
                      IF o = "ok"
                      THEN /\ snapshots' = Append(snapshots,
                                  overwrite(snapshots[table.snapshot], table_data.rows))
                           /\ table' = Refreshed(table, Len(snapshots'))
                           /\ caught' = ""
                           /\ stdout' = Append(stdout,
                                  Line("Data overwritten successfully!", ""))
                           /\ ret' = None
                           /\ pc' = "read_table_data"
                           /\ UNCHANGED exitStatus
                      ELSE /\ caught' = o
                           /\ stdout' = Append(stdout, Line("Traceback", o))
                           /\ pc' = "exited"
                           /\ exitStatus' = <<ExitStatus("traceback")>>
                           /\ UNCHANGED <<snapshots, table, ret>>
    /\ UNCHANGED <<account_id, catalog, data, tableExists, result>>

\* overwrite_data(table, new_data, schema)
OverwriteData ==
    /\ pc = "overwrite_data"
    /\ LET table_data == from_pylist(data, create_customer_schema)
       IN  IF ~table_data.ok
           THEN /\ caught' = "SchemaMismatchError"
                /\ stdout' = Append(stdout, Line("Error overwriting data", caught'))
                /\ UNCHANGED <<calls, snapshots, table>>
           ELSE /\ calls' = Append(calls, "overwrite")
                /\ \E o \in {"ok", "WriteConflictError", "TransportError"} :
                      IF o = "ok"
                      THEN /\ snapshots' = Append(snapshots,
                                  overwrite(snapshots[table.snapshot], table_data.rows))
                           /\ table' = Refreshed(table, Len(snapshots'))
                           /\ caught' = ""
                           /\ stdout' = Append(stdout,
                                  Line("Data overwritten successfully!", ""))
                      ELSE /\ caught' = o
                           /\ stdout' = Append(stdout, Line("Error overwriting data", o))
                           /\ UNCHANGED <<snapshots, table>>
    /\ ret' = None
    /\ pc' = "read_table_data"
    /\ UNCHANGED <<account_id, catalog, data, tableExists, result, exitStatus>>

\* Mutant of ReadTableData: a failed scan is tried again.
ReadTableDataRetry ==
    /\ pc = "read_table_data"
    /\ calls' = Append(calls, "scan")
    /\ \E o \in {"ok", "ReadError"} :
          IF o = "ok"
          THEN /\ result' = [state |-> "ok", snapshot |-> table.snapshot,
                             rows |-> to_pandas(snapshots[table.snapshot],
                                                create_customer_schema)]
               /\ stdout' = stdout \o <<Line("Reading data from the table...", ""),
                                        Line("Data in the table", "")>>
               /\ pc' = "done"
               /\ exitStatus' = <<ExitStatus(None)>>
          ELSE /\ result' = [result EXCEPT !.state = "error"]
               /\ stdout' = stdout \o <<Line("Reading data from the table...", ""),
                                        Line("Error reading data from the table", o)>>
               /\ pc' = IF Len(calls) < 8 THEN "read_table_data" ELSE "done"
               /\ exitStatus' = IF Len(calls) < 8 THEN << >> ELSE <<ExitStatus(None)>>
    /\ UNCHANGED <<account_id, catalog, table, data, tableExists, snapshots, caught, ret>>

\* read_table_data(table), after which main returns and the script ends
ReadTableData ==
    /\ pc = "read_table_data"
    /\ calls' = Append(calls, "scan")
    /\ \E o \in {"ok", "ReadError"} :
          IF o = "ok"
          THEN /\ result' = [state |-> "ok", snapshot |-> table.snapshot,
                             rows |-> to_pandas(snapshots[table.snapshot],
                                                create_customer_schema)]
               /\ stdout' = stdout \o <<Line("Reading data from the table...", ""),
                                        Line("Data in the table", "")>>
          ELSE /\ result' = [result EXCEPT !.state = "error"]
               /\ stdout' = stdout \o <<Line("Reading data from the table...", ""),
                                        Line("Error reading data from the table", o)>>
    /\ pc' = "done"
    /\ exitStatus' = <<ExitStatus(None)>>
    /\ UNCHANGED <<account_id, catalog, table, data, tableExists, snapshots, caught, ret>>

Next ==
    \/ GetAwsAccountId
    \/ InitializeCatalog
    \/ CreateTableIfNotExists
    \/ LoadTable
    \/ OverwriteData
    \/ ReadTableData

Spec == Init /\ [][Next]_vars

\* ------------------------------------------------------------------------
\* Properties
\* ------------------------------------------------------------------------

\* Schema conformance of a batch as the data model defines it: every record
\* supplies exactly the declared fields, each value null or of the field's type.
Conforms(batch, schema) ==
    \A i \in 1..Len(batch) :
        /\ DOMAIN batch[i] = Names(schema)
        /\ \A n \in Names(schema) : Converts(batch[i][n], TypeOf(schema, n))

\* A pandas row read as a record of Python values: NaN is the missing value,
\* and a float64 that came from an int32 equals that int.
AsRecord(row) ==
    [n \in DOMAIN row |->
        IF row[n].t = "nan" THEN Null
        ELSE IF row[n].t = "float" THEN PyInt(row[n].n)
        ELSE row[n]]

\* The records of a sequence as an order-independent collection.
BagOf(seq) ==
    [x \in {seq[i] : i \in 1..Len(seq)} |->
        Cardinality({i \in 1..Len(seq) : seq[i] = x})]

Count(seq, x) == Cardinality({i \in 1..Len(seq) : seq[i] = x})

OverwriteSucceeded == pc \in {"read_table_data", "done"} /\ caught = ""

OverwriteFailed == pc \in {"read_table_data", "done"} /\ caught # ""

ReadSucceeded == pc = "done" /\ result.state = "ok"

C2_AbortStopsWorkflow ==
    /\ account_id = None =>
          pc = "exited" /\ calls = <<"get_caller_identity">>
    /\ catalog = None =>
          pc = "exited" /\ calls = <<"get_caller_identity", "load_catalog">>
    /\ table.ref = None =>
          /\ pc = "exited"
          /\ calls = <<"get_caller_identity", "load_catalog", "create_table",
                       "load_table">>
    /\ (Called("overwrite") \/ Called("scan")) =>
          /\ account_id = "123456789012"
          /\ catalog = "rest_catalog"
          /\ table.ref = "Table"

\* C2 witness: the table load failed after the first three stages succeeded.
C2_Witness ==
    /\ pc = "exited"
    /\ table.ref = None
    /\ Len(calls) = 4

\* C3 as claimed: a batch with a record that misses a field, has a value of
\* the wrong type or carries an undeclared field makes overwrite fail with
\* SchemaMismatchError, with no replace issued and the table unchanged.
C3_NonconformingBatchRejected ==
    (pc \in {"read_table_data", "done"} /\ ~Conforms(data, create_customer_schema))
        => /\ caught = "SchemaMismatchError"
           /\ ~Called("overwrite")
           /\ Len(snapshots) = 1

\* C5: a read that follows a successful overwrite reads the snapshot that
\* overwrite produced, never the one before it.
C5_ReadAfterWrite ==
    (OverwriteSucceeded /\ ReadSucceeded)
        => /\ result.snapshot = Len(snapshots)
           /\ result.snapshot # 1
           /\ result.rows = to_pandas(snapshots[Len(snapshots)], create_customer_schema)

\* C5 witness: the overwrite changed the content and the read followed it.
C5_Witness ==
    /\ OverwriteSucceeded /\ ReadSucceeded
    /\ Len(snapshots) = 2
    /\ snapshots[1] # snapshots[2]

\* C6: create_table on a table that exists prints a note, leaves the table
\* and its content as they are, and main goes on to load_table.
C6_CreateExistingIsBenign ==
    [][(pc = "create_table_if_not_exists" /\ tableExists)
          => /\ pc' = "load_table"
             /\ exitStatus' = << >>
             /\ tableExists'
             /\ snapshots' = snapshots
             /\ stdout'[Len(stdout')].msg = "Table creation note"]_vars

\* C6 witness: create_table raised TableAlreadyExistsError on a table with
\* rows, and main is about to load it.
C6_Witness ==
    /\ pc = "load_table"
    /\ stdout[Len(stdout)] = Line("Table creation note", "TableAlreadyExistsError")
    /\ snapshots = <<initial_data>>

\* C7 as claimed: a run that aborted early ends with a non-zero status.
C7_AbortExitsNonZero ==
    pc = "exited" => exitStatus # <<0>>

\* C8 as claimed: what overwrite hands back to its caller names the kind of
\* the failure, so the caller can tell the kinds apart and from success.
C8_OverwriteFailureKindReported ==
    (ret # "unset" /\ caught # "") => ret = caught

\* The order in which main() reaches its collaborators.
CallOrder ==
    <<"get_caller_identity", "load_catalog", "create_table", "load_table",
      "overwrite", "scan">>

Rank(c) == CHOOSE k \in 1..Len(CallOrder) : CallOrder[k] = c

\* C9: the collaborator calls of a run are issued in the fixed order, each at
\* most once: no call is repeated and the scan never precedes the overwrite.
C9_CallsOnceInOrder ==
    /\ \A i \in 1..Len(calls) : \E k \in 1..Len(CallOrder) : CallOrder[k] = calls[i]
    /\ \A i, j \in 1..Len(calls) : i < j => Rank(calls[i]) < Rank(calls[j])

\* C9 witness: a run that ended after a failed scan, all six calls made.
C9_Witness ==
    /\ pc = "done"
    /\ result.state = "error"
    /\ calls = CallOrder

\* C10: after overwrite_data caught a failure it has printed it and returned
\* normally, the table is as before, main goes on to the scan, and the run
\* ends with exactly one scan whose rows are the pre-overwrite content.
C10_OverwriteFailureContinues ==
    caught # ""
        => /\ pc \in {"read_table_data", "done"}
           /\ ret = None
           /\ Printed("Error overwriting data")
           /\ Len(snapshots) = 1
           /\ pc = "done" =>
                 /\ Count(calls, "scan") = 1
                 /\ result.state = "ok" =>
                       result.rows = to_pandas(snapshots[1], create_customer_schema)

\* C10 witness: a write conflict was caught and the scan read the old rows.
C10_Witness ==
    /\ pc = "done"
    /\ caught = "WriteConflictError"
    /\ result.state = "ok"
    /\ result.rows = to_pandas(initial_data, create_customer_schema)

====
